---------------------------- MODULE Spec2Model ----------------------------
(***************************************************************************)
(* Model of src/options/black_scholes.rs (rquant): the Black-Scholes       *)
(* pricing expressions price_call_option / price_put_option and the        *)
(* gradient-descent solvers implied_call_volatility /                      *)
(* implied_put_volatility.                                                 *)
(*                                                                         *)
(* Numbers of the float type F are fixed-point integers:                   *)
(*   - d1, d2, the rate, time and ln/sqrt results: units of 1/Milli        *)
(*   - volatility: units of 1/VolOne                                       *)
(*   - the normal cdf: units of 1/PhiOne, exp: units of 1/ExpOne           *)
(*   - a price: units of 1/(PhiOne*ExpOne) of one currency unit, so that   *)
(*     the products of the pricing expression are exact integers.          *)
(* Arrays (ndarray) are records [shape, data] with row-major data.         *)
(***************************************************************************)
EXTENDS Integers, Sequences, FiniteSets, TLC

VARIABLES pc, args, vol, adam, lock, k, graph, hist, result, px, twin

vars == <<pc, args, vol, adam, lock, k, graph, hist, result, px, twin>>

---------------------------------------------------------------------------
(* Fixed-point scales of the float type F.                                 *)
Milli == 1000
VolOne == 10000
PhiOne == 10000
ExpOne == 1000
PriceOne == PhiOne * ExpOne

(* Bounds of the model.                                                    *)
MaxEpochs == 2
MaxDim == 3
MaxRank == 2
MaxBatch == 3

---------------------------------------------------------------------------
(* Integer helpers.                                                        *)
Abs(x) == IF x < 0 THEN -x ELSE x
Sign(x) == IF x < 0 THEN -1 ELSE IF x > 0 THEN 1 ELSE 0
\* division rounding toward zero
Quot(a, b) == Sign(a) * Sign(b) * (Abs(a) \div Abs(b))

RECURSIVE ISqrtIter(_, _)
ISqrtIter(n, x) ==
    LET y == (x + n \div x) \div 2
    IN  IF y >= x THEN x ELSE ISqrtIter(n, y)
\* floor of the square root
ISqrt(n) == IF n <= 0 THEN 0 ELSE ISqrtIter(n, n)

RECURSIVE SeqSum(_)
SeqSum(s) == IF s = <<>> THEN 0 ELSE Head(s) + SeqSum(Tail(s))

RECURSIVE SeqProd(_)
SeqProd(s) == IF s = <<>> THEN 1 ELSE Head(s) * SeqProd(Tail(s))

Min(a, b) == IF a <= b THEN a ELSE b

---------------------------------------------------------------------------
(* Elementary operators of the float type, to the model's resolution.      *)

\* ln(n) in 1/Milli for n = 1..5
LnTab == <<0, 693, 1099, 1386, 1609>>
\* g.ln(spot_price / strike_price)
ln_ratio(s, kk) == LnTab[s] - LnTab[kk]

\* g.sqrt(time_to_maturity): t in 1/Milli, result in 1/Milli
sqrt_fx(t) == ISqrt(t * Milli)

\* exp(-j/2) in 1/ExpOne for j = 0..10
ExpTab == <<1000, 607, 368, 223, 135, 82, 50, 30, 18, 11, 7>>
\* exp(-x) for x >= 0 in 1/Milli, linear between the knots
ExpNeg(x) ==
    LET j == x \div 500
    IN  IF j >= 10 THEN 0
        ELSE ExpTab[j + 1] - ((ExpTab[j + 1] - ExpTab[j + 2]) * (x % 500)) \div 500
\* g.exp(y), y in 1/Milli
exp_fx(y) == IF y <= 0 THEN ExpNeg(-y)
             ELSE IF ExpNeg(y) = 0 THEN ExpOne * ExpOne
             ELSE (ExpOne * ExpOne) \div ExpNeg(y)

\* Phi(j/2) in 1/PhiOne for j = 0..10
PhiTab == <<5000, 6915, 8413, 9332, 9772, 9938, 9987, 9998, 10000, 10000, 10000>>
PhiPos(x) ==
    LET j == x \div 500
    IN  IF j >= 10 THEN PhiOne
        ELSE PhiTab[j + 1] + ((PhiTab[j + 2] - PhiTab[j + 1]) * (x % 500)) \div 500
\* the standard normal cdf; Phi(x) + Phi(-x) = 1
Phi(x) == IF x >= 0 THEN PhiPos(x) ELSE PhiOne - PhiPos(-x)
\* stats::normal::cdf(g, x, mean, std)
cdf(x, mean, std) == Phi(Quot((x - mean) * Milli, std))

\* the standard normal density in 1/PhiOne at j/2, j = 0..10
PdfTab == <<3989, 3521, 2420, 1295, 540, 175, 44, 9, 1, 0, 0>>
PdfPos(x) ==
    LET j == x \div 500
    IN  IF j >= 10 THEN 0
        ELSE PdfTab[j + 1] - ((PdfTab[j + 1] - PdfTab[j + 2]) * (x % 500)) \div 500
\* d/dx of cdf(x, 0, 1), as reverse-mode differentiation yields it
pdf(x) == PdfPos(Abs(x))

---------------------------------------------------------------------------
(* The pricing expressions, per element.                                   *)

\* d1 = ln(S/K) + T * (sigma^2 / 2 + r)
D1(spot, ttm, strike, sigma, rate) ==
    ln_ratio(spot, strike)
      + Quot(ttm * (Quot(Quot(sigma * sigma, (VolOne * VolOne) \div Milli), 2) + rate), Milli)

\* d2 = d1 - sigma * sqrt(T)
D2(spot, ttm, strike, sigma, rate) ==
    D1(spot, ttm, strike, sigma, rate) - Quot(sigma * sqrt_fx(ttm), VolOne)

\* g.exp(g.neg(time_to_maturity * risk_free_interest_rate))
Discount(ttm, rate) == exp_fx(-Quot(ttm * rate, Milli))

\* the put expression with the sign of the cdf arguments dropped
price_put_option_nonneg(spot, ttm, strike, sigma, rate) ==
    strike * Discount(ttm, rate) * cdf(D2(spot, ttm, strike, sigma, rate), 0, Milli)
      - spot * cdf(D1(spot, ttm, strike, sigma, rate), 0, Milli) * ExpOne

price_call_option(spot, ttm, strike, sigma, rate) ==
    spot * cdf(D1(spot, ttm, strike, sigma, rate), 0, Milli) * ExpOne
      - strike * Discount(ttm, rate) * cdf(D2(spot, ttm, strike, sigma, rate), 0, Milli)

price_put_option(spot, ttm, strike, sigma, rate) ==
    strike * Discount(ttm, rate) * cdf(-D2(spot, ttm, strike, sigma, rate), 0, Milli)
      - spot * cdf(-D1(spot, ttm, strike, sigma, rate), 0, Milli) * ExpOne

---------------------------------------------------------------------------
(* Arrays and the data of a market input batch.                            *)

NoArray == [shape |-> <<>>, data |-> <<>>]

Size(shape) == SeqProd(shape)
LastDim(shape) == shape[Len(shape)]
Front(shape) == SubSeq(shape, 1, Len(shape) - 1)

\* shapes of rank 1..MaxRank with every dimension in 2..MaxDim
Shapes == UNION {[1..n -> 2..MaxDim] : n \in 1..MaxRank}

\* the market scenarios the batches are made of: observed price (in
\* 1/PriceOne), spot, time-to-maturity (in 1/Milli), strike
ScenList ==
    << [obs |-> 1959000, spot |-> 1, ttm |-> 1000, strike |-> 1],
       [obs |-> 12500000, spot |-> 2, ttm |-> 4000, strike |-> 1],
       [obs |-> 100000, spot |-> 1, ttm |-> 250, strike |-> 2] >>
NScen == Len(ScenList)
ScenAt(seed, j) == ScenList[((seed + j) % NScen) + 1]

\* the values a standard-uniform sample is drawn from, in 1/VolOne
VolInitList == <<2500, 7500, 5000>>
NVolInit == Len(VolInitList)

InputArray(field, shape, seed) ==
    [shape |-> shape, data |-> [j \in 1..Size(shape) |-> ScenAt(seed, j)[field]]]

\* rng.standard_uniform(shape): one of the arrays the generator can yield
standard_uniform(shape, seed) ==
    [shape |-> shape,
     data |-> [j \in 1..Size(shape) |-> VolInitList[((seed + j) % NVolInit) + 1]]]

\* the support of the standard uniform distribution, [0, 1)
InUniformSupport(arr) == \A j \in 1..Len(arr.data) : 0 <= arr.data[j] /\ arr.data[j] < VolOne

---------------------------------------------------------------------------
(* The shape assertion of implied_*_volatility.                            *)

\* a.shape().iter().zip(b.zip(c.zip(d))).all(|..| a == b && b == c && c == d):
\* zip ends with the shortest of the four iterators
ShapeCheck(a, b, c, d) ==
    LET n == Min(Min(Len(a), Len(b)), Min(Len(c), Len(d)))
    IN  \A i \in 1..n : a[i] = b[i] /\ b[i] = c[i] /\ c[i] = d[i]

\* the four input arrays have the identical shape, rank included
SameShape(a) ==
    /\ a.price.shape = a.spot.shape
    /\ a.spot.shape = a.ttm.shape
    /\ a.ttm.shape = a.strike.shape

---------------------------------------------------------------------------
(* One optimization step on arrays of one shape.                           *)

ResDiv == 10000
GradDiv == 100

\* d(d1)/d(sigma) = T * sigma, in 1/Milli
DD1(ttm, sigma) == Quot(ttm * sigma, VolOne)
\* d(d2)/d(sigma) = T * sigma - sqrt(T)
DD2(ttm, sigma) == DD1(ttm, sigma) - sqrt_fx(ttm)

\* d(price_call_option)/d(sigma), in 1/PriceOne per unit of volatility
call_vega(spot, ttm, strike, sigma, rate) ==
    spot * Quot(pdf(D1(spot, ttm, strike, sigma, rate)) * DD1(ttm, sigma), Milli) * ExpOne
      - strike * Discount(ttm, rate)
          * Quot(pdf(D2(spot, ttm, strike, sigma, rate)) * DD2(ttm, sigma), Milli)

\* d(price_put_option)/d(sigma)
put_vega(spot, ttm, strike, sigma, rate) ==
    strike * Discount(ttm, rate)
        * Quot(pdf(-D2(spot, ttm, strike, sigma, rate)) * (-DD2(ttm, sigma)), Milli) * (-1)
      - spot * Quot(pdf(-D1(spot, ttm, strike, sigma, rate)) * (-DD1(ttm, sigma)), Milli)
          * (-1) * ExpOne

Predicted(payoff, a, sigma, j) ==
    IF payoff = "call"
    THEN price_call_option(a.spot.data[j], a.ttm.data[j], a.strike.data[j], sigma[j], a.rate)
    ELSE price_put_option(a.spot.data[j], a.ttm.data[j], a.strike.data[j], sigma[j], a.rate)

Vega(payoff, a, sigma, j) ==
    IF payoff = "call"
    THEN call_vega(a.spot.data[j], a.ttm.data[j], a.strike.data[j], sigma[j], a.rate)
    ELSE put_vega(a.spot.data[j], a.ttm.data[j], a.strike.data[j], sigma[j], a.rate)

\* predicted price - observed price, element j
Residual(payoff, a, sigma, j) == Predicted(payoff, a, sigma, j) - a.price.data[j]

\* g.square(predicted - observed), element j, in units of (ResDiv/PriceOne)^2
SquaredError(payoff, a, sigma, j) ==
    Quot(Residual(payoff, a, sigma, j), ResDiv) * Quot(Residual(payoff, a, sigma, j), ResDiv)

\* the axes g.reduce_mean(.., &[-1], false) reduces: the last one only
ReducedCount(shape) == LastDim(shape)
ReducedShape(shape) == Front(shape)

\* mean_loss: one mean per index of the axes that are kept
mean_loss(payoff, a, sigma) ==
    LET shape == a.price.shape
        n == ReducedCount(shape)
        rows == Size(shape) \div n
    IN  [shape |-> ReducedShape(shape),
         data |-> [r \in 1..rows |->
                     Quot(SeqSum([c \in 1..n |-> SquaredError(payoff, a, sigma, (r - 1) * n + c)]), n)]]

\* a gradient that pairs element j with the residual of its neighbour
GradSourceShifted(j, n) == (j % n) + 1

\* the element of the batch whose residual enters the gradient of element j
GradSource(j, n) == j

\* g.grad(&[mean_loss], &[volatility]), element j: the derivative of the sum
\* of the entries of mean_loss with respect to volatility[j]
grads(payoff, a, sigma, j) ==
    LET src == GradSource(j, Len(sigma))
    IN  Quot(2 * Quot(Residual(payoff, a, sigma, src), ResDiv)
               * Quot(Vega(payoff, a, sigma, j), ResDiv),
             ReducedCount(a.price.shape) * GradDiv)

---------------------------------------------------------------------------
(* Adam (ag::optimizers::adam), with the defaults of Adam::default().      *)

\* alpha = 0.001 in 1/VolOne
AlphaVol == 10
\* beta1 = 0.9 = Beta1Num / Beta1Den, beta2 = 0.999 = Beta2Num / Beta2Den
Beta1Num == 9
Beta1Den == 10
Beta2Num == 999
Beta2Den == 1000
B1Scale == 1000
B2Scale == 1000000

NoAdam == [t |-> 0, m |-> <<>>, v |-> <<>>]

\* AdamState::new(&[&volatility_arr]): zeroed moments, t = 1.  m holds
\* Beta1Den times the first moment, v holds Beta2Den times the second
AdamStateNew(arr) ==
    [t |-> 1, m |-> [j \in 1..Len(arr.data) |-> 0], v |-> [j \in 1..Len(arr.data) |-> 0]]

RECURSIVE PowScaled(_, _, _, _)
\* scale * (num/den)^t
PowScaled(scale, num, den, t) ==
    IF t = 0 THEN scale ELSE (PowScaled(scale, num, den, t - 1) * num) \div den

\* floor(a * num / den) without the intermediate product a * num
MulDiv(a, num, den) == (a \div den) * num + ((a % den) * num) \div den

NewM(m, g) == Quot(m * Beta1Num, Beta1Den) + g
NewV(v, g) == MulDiv(v, Beta2Num, Beta2Den) + g * g
\* m / (1 - beta1^t)
MHat(m, t) == Quot(m * (B1Scale \div Beta1Den), B1Scale - PowScaled(B1Scale, Beta1Num, Beta1Den, t))
\* v / (1 - beta2^t)
VHat(v, t) == MulDiv(v, B2Scale \div Beta2Den, B2Scale - PowScaled(B2Scale, Beta2Num, Beta2Den, t))
\* alpha * m_hat / (sqrt(v_hat) + eps), in 1/VolOne
AdamDelta(m, v, t) ==
    IF ISqrt(VHat(v, t)) = 0 THEN 0
    ELSE Quot(AlphaVol * MHat(m, t), ISqrt(VHat(v, t)))

\* the timestep after an update
NextT(t) == t + 1

\* the moments and timestep after the update op ran on gradient g
AdamAdvance(st, g) ==
    [t |-> NextT(st.t),
     m |-> [j \in 1..Len(st.m) |-> NewM(st.m[j], g[j])],
     v |-> [j \in 1..Len(st.v) |-> NewV(st.v[j], g[j])]]

\* the parameter after the update op: param -= alpha * m_hat / (sqrt(v_hat) + eps)
AdamApply(param, st, g) ==
    [j \in 1..Len(param) |->
        param[j] - AdamDelta(NewM(st.m[j], g[j]), NewV(st.v[j], g[j]), st.t)]

\* g.eval(update_ops, feeds): gradient from the variable's value, then Adam
EvalStep(payoff, a, param, st) ==
    LET g == SubSeq([j \in 1..Len(param) |-> grads(payoff, a, param, j)], 1, Len(param))
    IN  [vol |-> AdamApply(param, st, g), adam |-> AdamAdvance(st, g)]

IdlePx == px = [stage |-> "idle"]
IdleTwin == twin = [stage |-> "idle"]

---------------------------------------------------------------------------
(* implied_call_volatility / implied_put_volatility as a state machine.    *)
(* args.payoff selects the function; the two bodies differ only in the     *)
(* pricing expression they call.                                           *)

NoGraph == [id |-> 0, param |-> NoArray, stage |-> "none"]

NoHist ==
    [samples |-> 0, adamNew |-> 0, graphs |-> 0, priceCalls |-> 0, gradCalls |-> 0,
     updateCalls |-> 0, evals |-> 0, evalGraph |-> 0, writers |-> 0,
     initVol |-> NoArray, written |-> NoArray, loss |-> NoArray]

NoArgs ==
    [payoff |-> "none", price |-> NoArray, spot |-> NoArray, ttm |-> NoArray,
     strike |-> NoArray, rate |-> 0, epochs |-> 0, vseed |-> 0]

IdleSolver ==
    /\ pc = "idle"
    /\ args = NoArgs
    /\ vol = NoArray
    /\ adam = NoAdam
    /\ lock = "free"
    /\ k = 0
    /\ graph = NoGraph
    /\ hist = NoHist
    /\ result = NoArray

SolverRates == {0, 50}

\* the shape of input array i (1: price, 2: spot, 3: time, 4: strike) when
\* array dev (0: none) has shape other and the rest have shape base
ShapeOf(i, dev, base, other) == IF i = dev THEN other ELSE base

Init ==
    /\ pc = "entry"
    /\ \E payoff \in {"call", "put"}, base \in Shapes, other \in Shapes, dev \in 0..4,
          seed \in 0..(NScen - 1), vseed \in 0..(NVolInit - 1),
          r \in SolverRates, e \in 0..MaxEpochs :
          /\ (dev = 0) = (other = base)
          /\ (dev # 0) => (seed = 0 /\ vseed = 0)
          /\ args = [payoff |-> payoff,
                     price |-> InputArray("obs", ShapeOf(1, dev, base, other), seed),
                     spot |-> InputArray("spot", ShapeOf(2, dev, base, other), seed),
                     ttm |-> InputArray("ttm", ShapeOf(3, dev, base, other), seed),
                     strike |-> InputArray("strike", ShapeOf(4, dev, base, other), seed),
                     rate |-> r, epochs |-> e, vseed |-> vseed]
    /\ vol = NoArray
    /\ adam = NoAdam
    /\ lock = "free"
    /\ k = 0
    /\ graph = NoGraph
    /\ hist = NoHist
    /\ result = NoArray
    /\ IdlePx
    /\ IdleTwin

\* lines 58-69 / 124-135: the assertion holds
AssertPass ==
    /\ pc = "entry"
    /\ ShapeCheck(args.price.shape, args.spot.shape, args.ttm.shape, args.strike.shape)
    /\ pc' = "validated"
    /\ UNCHANGED <<args, vol, adam, lock, k, graph, hist, result, px, twin>>

\* lines 58-69 / 124-135: the assertion fails, the call panics
AssertFail ==
    /\ pc = "entry"
    /\ ~ShapeCheck(args.price.shape, args.spot.shape, args.ttm.shape, args.strike.shape)
    /\ pc' = "panic_assert"
    /\ UNCHANGED <<args, vol, adam, lock, k, graph, hist, result, px, twin>>

\* lines 70-71 / 136-137: the shared volatility array
SampleVolatility ==
    /\ pc = "validated"
    /\ vol' = standard_uniform(args.price.shape, args.vseed)
    /\ hist' = [hist EXCEPT !.samples = @ + 1, !.initVol = vol', !.written = vol']
    /\ pc' = "sampled"
    /\ UNCHANGED <<args, adam, lock, k, graph, result, px, twin>>

\* line 72 / 138
AdamNew ==
    /\ pc = "sampled"
    /\ adam' = AdamStateNew(vol)
    /\ hist' = [hist EXCEPT !.adamNew = @ + 1]
    /\ pc' = "loop"
    /\ UNCHANGED <<args, vol, lock, k, graph, result, px, twin>>

\* a loop that runs its body before it tests the count
LoopCondDoWhile(i, epochs) == i < epochs \/ i = 0

\* a loop that stops one iteration short
LoopCondEarly(i, epochs) == i < epochs - 1

\* for _ in 0..epochs
LoopCond(i, epochs) == i < epochs

\* a variable bound to a private copy taken when the array was sampled
variable_stale(shared, h) == h.initVol

\* the value g.variable(volatility_arr.clone()) stands for: the shared
\* array's current content
variable(shared, h) == shared

\* one graph kept across the iterations
NewGraphIdReused(h) == IF h.graphs = 0 THEN 1 ELSE h.graphs

\* the graph ag::with hands to the closure
NewGraphId(h) == h.graphs + 1

\* lines 74-76 / 140-142: the next iteration opens a graph and declares the
\* volatility variable
LoopEnter ==
    /\ pc = "loop"
    /\ LoopCond(k, args.epochs)
    /\ graph' = [id |-> NewGraphId(hist), param |-> variable(vol, hist), stage |-> "variable"]
    /\ hist' = [hist EXCEPT !.graphs = @ + 1]
    /\ pc' = "graph"
    /\ UNCHANGED <<args, vol, adam, lock, k, result, px, twin>>

\* lines 77-89 / 143-155: placeholders and the predicted price
BuildPrice ==
    /\ pc = "graph"
    /\ graph' = [graph EXCEPT !.stage = "price"]
    /\ hist' = [hist EXCEPT !.priceCalls = @ + 1]
    /\ pc' = "priced"
    /\ UNCHANGED <<args, vol, adam, lock, k, result, px, twin>>

\* lines 90-91 / 156-157: the loss and its gradient
BuildGrad ==
    /\ pc = "priced"
    /\ graph' = [graph EXCEPT !.stage = "grad"]
    /\ hist' = [hist EXCEPT !.gradCalls = @ + 1]
    /\ pc' = "graded"
    /\ UNCHANGED <<args, vol, adam, lock, k, result, px, twin>>

\* lines 92-97 / 158-163: the Adam update ops
BuildUpdates ==
    /\ pc = "graded"
    /\ graph' = [graph EXCEPT !.stage = "update_ops"]
    /\ hist' = [hist EXCEPT !.updateCalls = @ + 1]
    /\ pc' = "built"
    /\ UNCHANGED <<args, vol, adam, lock, k, result, px, twin>>

\* lines 99-106 / 165-172: evaluation starts; the update op takes the write
\* lock of the shared array
EvalBegin ==
    /\ pc = "built"
    /\ SameShape(args)
    /\ lock = "free"
    /\ lock' = "write"
    /\ hist' = [hist EXCEPT !.writers = @ + 1]
    /\ pc' = "eval"
    /\ UNCHANGED <<args, vol, adam, k, graph, result, px, twin>>

\* lines 99-106 / 165-172: the fed arrays do not have one shape; the
\* element-wise operators of the graph cannot combine them and the
\* evaluation panics
EvalShapeFail ==
    /\ pc = "built"
    /\ ~SameShape(args)
    /\ pc' = "panic_eval"
    /\ UNCHANGED <<args, vol, adam, lock, k, graph, hist, result, px, twin>>

\* lines 99-107 / 165-173: the update op mutates the shared array and the
\* optimizer state
EvalUpdate ==
    /\ pc = "eval"
    /\ lock = "write"
    /\ LET out == EvalStep(args.payoff, args, graph.param.data, adam)
       IN  /\ vol' = [vol EXCEPT !.data = out.vol]
           /\ adam' = out.adam
           /\ hist' = [hist EXCEPT !.evals = @ + 1,
                                   !.evalGraph = graph.id,
                                   !.written = vol',
                                   !.loss = mean_loss(args.payoff, args, graph.param.data)]
    /\ pc' = "evaluated"
    /\ UNCHANGED <<args, lock, k, graph, result, px, twin>>

\* lines 107-109 / 173-175: the write guard is released, the graph is
\* dropped, the iteration ends
EvalEnd ==
    /\ pc = "evaluated"
    /\ lock' = "free"
    /\ hist' = [hist EXCEPT !.writers = @ - 1]
    /\ graph' = NoGraph
    /\ k' = k + 1
    /\ pc' = "loop"
    /\ UNCHANGED <<args, vol, adam, result, px, twin>>

\* lines 110-112 / 176-178: the loop is over, the read lock is taken
ReadLock ==
    /\ pc = "loop"
    /\ ~LoopCond(k, args.epochs)
    /\ lock = "free"
    /\ lock' = "read"
    /\ pc' = "locked"
    /\ UNCHANGED <<args, vol, adam, k, graph, hist, result, px, twin>>

\* line 113 / 179: the copy is returned, the read guard is dropped
ToOwned ==
    /\ pc = "locked"
    /\ result' = vol
    /\ lock' = "free"
    /\ pc' = "returned"
    /\ UNCHANGED <<args, vol, adam, k, graph, hist, px, twin>>

Next ==
    \/ AssertPass
    \/ AssertFail
    \/ SampleVolatility
    \/ AdamNew
    \/ LoopEnter
    \/ BuildPrice
    \/ BuildGrad
    \/ BuildUpdates
    \/ EvalBegin
    \/ EvalShapeFail
    \/ EvalUpdate
    \/ EvalEnd
    \/ ReadLock
    \/ ToOwned

Spec == Init /\ [][Next]_vars

---------------------------------------------------------------------------
(* Forward pricing of one scenario at two volatilities.                    *)

Spots == 1..3
Strikes == 1..3
Times == {250, 1000, 4000}
Rates == {0, 50, 500}
Sigmas == {2000, 5000, 10000, 15000, 20000, 30000}

InitPrice ==
    /\ IdleSolver
    /\ IdleTwin
    /\ \E s \in Spots, kk \in Strikes, t \in Times, r \in Rates,
          s1 \in Sigmas, s2 \in Sigmas :
          px = [stage |-> "input", spot |-> s, strike |-> kk, ttm |-> t, rate |-> r,
                sigma1 |-> s1, sigma2 |-> s2,
                call1 |-> 0, call2 |-> 0, put1 |-> 0, put2 |-> 0]

PriceCall ==
    /\ px.stage = "input"
    /\ px' = [px EXCEPT
                !.stage = "called",
                !.call1 = price_call_option(px.spot, px.ttm, px.strike, px.sigma1, px.rate),
                !.call2 = price_call_option(px.spot, px.ttm, px.strike, px.sigma2, px.rate)]
    /\ UNCHANGED <<pc, args, vol, adam, lock, k, graph, hist, result, twin>>

PricePut ==
    /\ px.stage = "called"
    /\ px' = [px EXCEPT
                !.stage = "priced",
                !.put1 = price_put_option(px.spot, px.ttm, px.strike, px.sigma1, px.rate),
                !.put2 = price_put_option(px.spot, px.ttm, px.strike, px.sigma2, px.rate)]
    /\ UNCHANGED <<pc, args, vol, adam, lock, k, graph, hist, result, twin>>

NextPrice == PriceCall \/ PricePut

SpecPrice == InitPrice /\ [][NextPrice]_vars

---------------------------------------------------------------------------
(* Two solver invocations on batches that agree at one position.           *)

\* the batch made of the scenarios ScenList[idx[1]], .., ScenList[idx[n]]
BatchOf(idx, rate) ==
    [price |-> [shape |-> <<Len(idx)>>, data |-> [j \in 1..Len(idx) |-> ScenList[idx[j]].obs]],
     spot |-> [shape |-> <<Len(idx)>>, data |-> [j \in 1..Len(idx) |-> ScenList[idx[j]].spot]],
     ttm |-> [shape |-> <<Len(idx)>>, data |-> [j \in 1..Len(idx) |-> ScenList[idx[j]].ttm]],
     strike |-> [shape |-> <<Len(idx)>>, data |-> [j \in 1..Len(idx) |-> ScenList[idx[j]].strike]],
     rate |-> rate]

Perms(n) == {p \in [1..n -> 1..n] : \A i, j \in 1..n : p[i] = p[j] => i = j}

PairRates == {50}

\* batch A is any batch of 3..MaxBatch scenarios; batch B is batch A with
\* the scenarios other than the one at pos permuted; both invocations start
\* from the same sample
InitPair ==
    /\ IdleSolver
    /\ IdlePx
    /\ \E n \in 3..MaxBatch, payoff \in {"call", "put"}, vseed \in 0..(NVolInit - 1),
          rate \in PairRates :
       \E idx \in [1..n -> 1..NScen], pos \in 1..n, p \in Perms(n) :
          /\ p[pos] = pos
          /\ \E j \in 1..n : p[j] # j
          /\ twin = [stage |-> "run", payoff |-> payoff, pos |-> pos, k |-> 0,
                     batchA |-> BatchOf(idx, rate),
                     batchB |-> BatchOf([j \in 1..n |-> idx[p[j]]], rate),
                     volA |-> standard_uniform(<<n>>, vseed).data,
                     volB |-> standard_uniform(<<n>>, vseed).data,
                     initA |-> standard_uniform(<<n>>, vseed).data,
                     adamA |-> AdamStateNew(standard_uniform(<<n>>, vseed)),
                     adamB |-> AdamStateNew(standard_uniform(<<n>>, vseed))]

\* one optimization step of each of the two invocations
PairStep ==
    /\ twin.stage = "run"
    /\ twin.k < MaxEpochs
    /\ LET a == EvalStep(twin.payoff, twin.batchA, twin.volA, twin.adamA)
           b == EvalStep(twin.payoff, twin.batchB, twin.volB, twin.adamB)
       IN  twin' = [twin EXCEPT !.k = @ + 1,
                                !.volA = a.vol, !.adamA = a.adam,
                                !.volB = b.vol, !.adamB = b.adam]
    /\ UNCHANGED <<pc, args, vol, adam, lock, k, graph, hist, result, px>>

\* both invocations return their arrays
PairReturn ==
    /\ twin.stage = "run"
    /\ twin' = [twin EXCEPT !.stage = "returned"]
    /\ UNCHANGED <<pc, args, vol, adam, lock, k, graph, hist, result, px>>

NextPair == PairStep \/ PairReturn

SpecPair == InitPair /\ [][NextPair]_vars

---------------------------------------------------------------------------
(* Properties of the solver.                                               *)

ShapesPassAssert ==
    ShapeCheck(args.price.shape, args.spot.shape, args.ttm.shape, args.strike.shape)

InStep == pc \in {"graph", "priced", "graded", "built", "eval", "evaluated"}

\* C1: a call whose four input arrays do not have the identical shape
\* (rank included) fails at the assertion: it never samples the volatility
\* array, allocates optimizer state, builds a graph or runs a step.
MismatchFailsAtAssert ==
    ~SameShape(args) =>
        /\ pc \in {"entry", "panic_assert"}
        /\ hist.samples = 0
        /\ hist.adamNew = 0
        /\ hist.graphs = 0
        /\ hist.evals = 0

\* C2: with epochs = 0 the call returns exactly the sampled array, every
\* element in the support of the standard uniform distribution, and neither
\* the pricing expression, the gradient, the Adam update nor an evaluation
\* was invoked.
ZeroEpochsReturnsSample ==
    (args.epochs = 0 /\ pc # "idle") =>
        /\ ~InStep
        /\ hist.graphs = 0
        /\ hist.priceCalls = 0
        /\ hist.gradCalls = 0
        /\ hist.updateCalls = 0
        /\ hist.evals = 0
        /\ pc = "returned" =>
              /\ hist.samples = 1
              /\ result = hist.initVol
              /\ result.shape = args.price.shape
              /\ Len(result.data) = Size(args.price.shape)
              /\ InUniformSupport(result)

ZeroEpochsWitness ==
    /\ pc = "returned"
    /\ args.epochs = 0
    /\ SameShape(args)
    /\ Len(result.data) > 1
    /\ \E i, j \in 1..Len(result.data) : result.data[i] # result.data[j]

\* some action of the solver is enabled: every position but the loop head
\* and the start of the evaluation has an action without a guard
CanProceed ==
    \/ pc \in {"entry", "validated", "sampled", "graph", "priced", "graded",
                "eval", "evaluated", "locked"}
    \/ pc = "loop" /\ (LoopCond(k, args.epochs) \/ lock = "free")
    \/ pc = "built" /\ (~SameShape(args) \/ lock = "free")

OutputShapeIsInputShape ==
    (pc = "returned" \/ hist.evals > 0) =>
        LET out == IF pc = "returned" THEN result ELSE vol
        IN  /\ out.shape = args.price.shape
            /\ out.shape = args.spot.shape
            /\ out.shape = args.ttm.shape
            /\ out.shape = args.strike.shape

\* C8: each step declares its parameter from the value the previous update
\* left in the shared array (the sample for the first step); write access
\* is held by one evaluation at a time and only during it; the read lock is
\* taken only after the last update released write access; the returned
\* array is the value left by step `epochs`.
StepsSequential ==
    /\ pc \in {"graph", "priced", "graded", "built", "eval"} => graph.param = hist.written
    /\ hist.writers \in {0, 1}
    /\ (lock = "write") = (pc \in {"eval", "evaluated"})
    /\ (lock = "write") = (hist.writers = 1)
    /\ pc = "evaluated" => (hist.evalGraph = k + 1 /\ hist.evals = k + 1 /\ vol = hist.written)
    /\ lock = "read" =>
          /\ pc = "locked"
          /\ hist.writers = 0
          /\ hist.evals = args.epochs
          /\ vol = hist.written
    /\ pc = "returned" =>
          /\ result = hist.written
          /\ hist.evals = args.epochs
          /\ lock = "free"

StepsSequentialWitness ==
    /\ pc = "returned"
    /\ args.epochs >= 2
    /\ hist.evals = args.epochs
    /\ result # hist.initVol
    /\ \E j \in 1..Len(result.data) : Abs(result.data[j] - hist.initVol.data[j]) > AlphaVol

\* the mean of the squared error over every element of the batch
BatchMSE(payoff, a, sigma) ==
    Quot(SeqSum([j \in 1..Size(a.price.shape) |-> SquaredError(payoff, a, sigma, j)]),
         Size(a.price.shape))

\* C9: for every batch that passes the shape validation, of any rank, the
\* loss whose gradient is taken is one scalar: the mean of the squared
\* difference of predicted and observed price over all elements.
LossIsBatchMSE ==
    pc = "evaluated" =>
        /\ hist.loss.shape = <<>>
        /\ hist.loss.data = <<BatchMSE(args.payoff, args, graph.param.data)>>

\* C10: the optimizer state is created once, after the shape validation and
\* the sampling, is never re-created, and is advanced once by each step;
\* every step works on a graph of its own.
AdamOnceGraphPerStep ==
    /\ hist.adamNew = (IF pc \in {"idle", "entry", "panic_assert", "validated", "sampled"} THEN 0 ELSE 1)
    /\ hist.adamNew = 1 => (hist.samples = 1 /\ ShapesPassAssert /\ adam # NoAdam)
    /\ adam # NoAdam =>
          /\ adam.t = 1 + hist.evals
          /\ Len(adam.m) = Len(vol.data)
          /\ Len(adam.v) = Len(vol.data)
    /\ pc = "returned" => adam.t = 1 + args.epochs
    /\ InStep => (graph.id = k + 1 /\ hist.graphs = k + 1)
    /\ pc \in {"loop", "locked", "returned"} => (graph = NoGraph /\ hist.graphs = k)
    /\ hist.evalGraph = hist.evals

AdamOnceWitness ==
    /\ pc = "returned"
    /\ args.epochs = MaxEpochs
    /\ adam.t = 1 + MaxEpochs
    /\ hist.graphs = MaxEpochs
    /\ \E j \in 1..Len(adam.m) : adam.m[j] # 0

---------------------------------------------------------------------------
\* C5: two invocations with the same epochs, rate and initial volatility at
\* position pos, whose batches agree at pos and differ by a permutation of
\* the other scenarios, hold the same volatility at pos after every step
\* and return the same volatility at pos.
BatchIndependent ==
    twin.stage \in {"run", "returned"} => twin.volA[twin.pos] = twin.volB[twin.pos]

BatchIndependentWitness ==
    /\ twin.stage = "returned"
    /\ twin.k = MaxEpochs
    /\ twin.batchA # twin.batchB
    /\ twin.volA # twin.volB
    /\ twin.volA[twin.pos] # twin.initA[twin.pos]

---------------------------------------------------------------------------
\* C6: once both expressions are evaluated on the same inputs, call minus
\* put equals S - K*exp(-r*T) (put-call parity), at both volatilities.
ParityHolds ==
    (px.stage = "priced") =>
        LET rhs == (px.spot * ExpOne - px.strike * Discount(px.ttm, px.rate)) * PhiOne
        IN  /\ px.call1 - px.put1 = rhs
            /\ px.call2 - px.put2 = rhs

\* a priced scenario whose cdf arguments are non-zero and whose discount
\* factor is below one
ParityWitness ==
    /\ px.stage = "priced"
    /\ px.rate > 0
    /\ px.spot # px.strike
    /\ D2(px.spot, px.ttm, px.strike, px.sigma1, px.rate) < 0
    /\ D1(px.spot, px.ttm, px.strike, px.sigma1, px.rate) > 0
    /\ px.call1 > 0

\* C7: for fixed (S, T, K, r) and sigma1 <= sigma2 the call price and the
\* put price at sigma1 are at most those at sigma2.
MonotoneInVolatility ==
    (px.stage = "priced" /\ px.sigma1 <= px.sigma2) =>
        /\ px.call1 <= px.call2
        /\ px.put1 <= px.put2

=============================================================================
